---- MODULE Spec2Model ----
(***************************************************************************)
(* Model of the agent-skills-generator crawl engine: the VS Code           *)
(* extension's Crawler (visit / shouldIgnore / getFilePath / saveFile)     *)
(* and the Go CLI's rule engine and collector (loadRules / shouldVisit /   *)
(* getSeedURL / runCrawl).                                                 *)
(*                                                                         *)
(* Strings are sequences of characters.  A few multi-character tokens      *)
(* ("https://", "index", "html", "md", "xml", file names, time stamps)     *)
(* are kept as single elements; neither the code nor any input of the      *)
(* model splits them.                                                      *)
(***************************************************************************)
EXTENDS Integers, Sequences, FiniteSets, TLC

(***************************************************************************)
(* JavaScript / Go string primitives                                       *)
(***************************************************************************)
Min(a, b) == IF a <= b THEN a ELSE b

\* s.startsWith(p) / strings.HasPrefix
StartsWith(s, p) == Len(p) <= Len(s) /\ SubSeq(s, 1, Len(p)) = p

\* s.endsWith(p) / strings.HasSuffix
EndsWith(s, p) == Len(p) <= Len(s) /\ SubSeq(s, Len(s) - Len(p) + 1, Len(s)) = p

\* s.slice(0, -1)
DropLast(s) == SubSeq(s, 1, Len(s) - 1)

\* s.substring(n) with a 0-based n
Substring(s, n) == SubSeq(s, n + 1, Len(s))

\* 1-based position of the first character of s that lies in cs, Len(s)+1 if none
FirstOf(s, cs) ==
    IF \E i \in 1..Len(s) : s[i] \in cs
    THEN CHOOSE i \in 1..Len(s) : s[i] \in cs /\ \A j \in 1..(i - 1) : s[j] \notin cs
    ELSE Len(s) + 1

\* s.indexOf(p, from): 0-based index of the first occurrence at or after from, -1 if none
IndexOf(s, p, from) ==
    LET hits == {i \in from..(Len(s) - Len(p)) : SubSeq(s, i + 1, i + Len(p)) = p}
    IN  IF hits = {} THEN -1 ELSE CHOOSE i \in hits : \A j \in hits : i <= j

\* s.includes(p)
Includes(s, p) == IndexOf(s, p, 0) >= 0

\* s.replace(/c/g, d) for single characters; also s.split(c).join(d)
ReplaceAll(s, c, d) == [i \in 1..Len(s) |-> IF s[i] = c THEN d ELSE s[i]]

\* s.replace(/p$/, '') / strings.TrimSuffix
TrimSuffix(s, p) == IF EndsWith(s, p) THEN SubSeq(s, 1, Len(s) - Len(p)) ELSE s

\* s.replace(/^p/, '') / strings.TrimPrefix
TrimPrefix(s, p) == IF StartsWith(s, p) THEN Substring(s, Len(p)) ELSE s

\* 1-based position of the last "/" of s, 0 if none
LastSlash(s) ==
    IF \E i \in 1..Len(s) : s[i] = "/"
    THEN CHOOSE i \in 1..Len(s) : s[i] = "/" /\ \A j \in (i + 1)..Len(s) : s[j] # "/"
    ELSE 0

\* the part of s after its last "/": s.split('/').pop(), path.basename
LastSegment(s) == Substring(s, LastSlash(s))

(***************************************************************************)
(* WHATWG URL: new URL(s), .hostname, .pathname, .hash = '', .toString()   *)
(***************************************************************************)
Scheme == "https://"

\* new URL(s) throws unless s is an absolute URL with a host
ValidURL(s) ==
    /\ Len(s) >= 2
    /\ s[1] = Scheme
    /\ s[2] \notin {"/", "?", "#"}

Hostname(s) ==
    LET rest == Substring(s, 1)
    IN  SubSeq(rest, 1, FirstOf(rest, {"/", "?", "#"}) - 1)

\* the path, "/" when the URL has none
Pathname(s) ==
    LET rest == Substring(s, 1)
        from == FirstOf(rest, {"/", "?", "#"})
        tail == SubSeq(rest, from, Len(rest))
        p    == SubSeq(tail, 1, FirstOf(tail, {"?", "#"}) - 1)
    IN  IF p = <<>> THEN <<"/">> ELSE p

\* the query, with its "?"
Search(s) ==
    LET noHash == SubSeq(s, 1, FirstOf(s, {"#"}) - 1)
    IN  SubSeq(noHash, FirstOf(noHash, {"?"}), Len(noHash))

\* urlObj.hash = ''; urlObj.toString()
StripHash(s) == <<Scheme>> \o Hostname(s) \o Pathname(s) \o Search(s)

\* new URL(href, base): an absolute href stands alone and a path-absolute href
\* takes the base's origin; the one other href of the model, a scheme without
\* a host, throws
CanResolve(href, base) ==
    ValidURL(href) \/ (Len(href) >= 1 /\ href[1] = "/")

Resolve(href, base) ==
    IF ValidURL(href) THEN href ELSE <<Scheme>> \o Hostname(base) \o href

(***************************************************************************)
(* node:path -- join, dirname, extname                                     *)
(***************************************************************************)
RECURSIVE CollapseSlashes(_)
\* path.normalize on the paths the crawler builds: runs of "/" become one "/"
CollapseSlashes(s) ==
    IF Len(s) < 2 THEN s
    ELSE IF s[1] = "/" /\ s[2] = "/" THEN CollapseSlashes(Tail(s))
    ELSE <<s[1]>> \o CollapseSlashes(Tail(s))

RECURSIVE JoinParts(_)
JoinParts(parts) ==
    IF parts = <<>> THEN <<>>
    ELSE IF Head(parts) = <<>> THEN JoinParts(Tail(parts))
    ELSE LET rest == JoinParts(Tail(parts))
         IN  IF rest = <<>> THEN Head(parts) ELSE Head(parts) \o <<"/">> \o rest

\* path.join(...parts): empty parts are skipped, the rest joined by "/" and normalized
PathJoin(parts) == CollapseSlashes(JoinParts(parts))

\* path.dirname(p)
PathDirname(p) ==
    LET q == IF Len(p) > 1 /\ EndsWith(p, <<"/">>) THEN DropLast(p) ELSE p
        i == LastSlash(q)
    IN  IF i = 0 THEN <<".">> ELSE IF i = 1 THEN <<"/">> ELSE SubSeq(q, 1, i - 1)

\* path.extname(p): from the last "." of the last segment, unless that "." leads it
PathExtname(p) ==
    LET base == LastSegment(p)
        dots == {i \in 1..Len(base) : base[i] = "."}
    IN  IF dots = {} THEN <<>>
        ELSE LET d == CHOOSE i \in dots : \A j \in dots : j <= i
             IN  IF d = 1 THEN <<>> ELSE SubSeq(base, d, Len(base))

(***************************************************************************)
(* Crawler configuration                                                   *)
(***************************************************************************)
\* path.join(this.rootPath, this.config.output)
OutputDir == <<"out">>

DefaultFileName == <<"SKILL.md">>

VARIABLES
    config,      \* Crawler.config: [flat, file_rename, rules]
    visited,     \* Crawler.visited
    frames,      \* the suspended visit() calls, innermost last: [url, rule, links]
    ruleIdx,     \* position of crawl()'s loop over config.rules
    phase,       \* "idle" | "fetching" (awaiting axios.get) | "done" | "failed"
    inflight,    \* the request being awaited: [url, headers]
    disk,        \* the output tree: path -> skill document
    run,         \* number of crawl() calls started
    fetches,     \* per run: url -> number of axios.get calls
    mined,       \* per run: the URLs that the response bodies held
    writes,      \* per run: the writeFileSync calls, [path, url]
    derived,     \* every getFilePath call: [url, ruleUrl, bundle, path]
    probe,       \* rule engine: the URL put to shouldVisit and to visit()
    verdict,     \* rule engine: shouldVisit's answer, "none" before the call
    goPhase,     \* Go CLI runCrawl: "start" | "crawling" | "done"
    goVisited,   \* Go CLI: the URLs the collector has accepted (its revisit filter)
    goQueue,     \* Go CLI: accepted requests waiting for a free slot
    goActive,    \* Go CLI: requests in flight
    goFetched,   \* Go CLI: every URL an HTTP request was issued for
    goSaved,     \* Go CLI: the documents saveResponse wrote, [url, path, name]
    server,      \* the site when it is a fixed one: url -> what it answers
    view,        \* webview (main.js): what getState() returns, a configuration
    stored,      \* workspaceState 'skillsConfig': [config, lastFetched] or NoState
    toHost,      \* messages posted by the webview, not yet handled by the host
    toView,      \* messages posted by the host, not yet handled by the webview
    task,        \* runCrawl of the view provider: "none" | "running"
    cancelRequested, \* the progress token of the running task has been cancelled
    lastEdit,    \* the edits made in the webview: [n, state], state of the latest
    manifest,    \* DependencyScanner: the manifest files of the project root,
                 \* [has, npm, pub, go], has the files that exist
    emitted      \* DependencyScanner.scan: [returned, rules]

crawlerVars == <<config, visited, frames, ruleIdx, phase, inflight, disk, run,
                 fetches, mined, writes, derived>>
engineVars == <<probe, verdict>>
goVars == <<goPhase, goVisited, goQueue, goActive, goFetched, goSaved>>
uiVars == <<view, stored, toHost, toView, task, cancelRequested, lastEdit>>
scanVars == <<manifest, emitted>>
envVars == <<server, uiVars, scanVars>>
vars == <<crawlerVars, engineVars, goVars, envVars>>

(***************************************************************************)
(* Crawler.getFilePath                                                     *)
(***************************************************************************)
CleanDomain(host) == ReplaceAll(host, ".", "_")

FileName == IF config.file_rename # <<>> THEN config.file_rename ELSE DefaultFileName

\* the bundle branch: the directory is named after the rule's URL
BundleDir(rule) ==
    LET ruleUrl    == IF EndsWith(rule.url, <<"/">>) THEN DropLast(rule.url) ELSE rule.url
        bundleName == ReplaceAll(TrimPrefix(Pathname(ruleUrl), <<"/">>), "/", "_")
    IN  CleanDomain(Hostname(ruleUrl)) \o <<"_">> \o bundleName

BundleRelative(urlStr, rule) ==
    LET ruleUrl    == IF EndsWith(rule.url, <<"/">>) THEN DropLast(rule.url) ELSE rule.url
        tp         == Pathname(urlStr)
        rp         == Pathname(ruleUrl)
        targetPath == IF EndsWith(tp, <<"/">>) THEN tp ELSE tp \o <<"/">>
        rulePath   == IF EndsWith(rp, <<"/">>) THEN rp ELSE rp \o <<"/">>
        relative   == IF StartsWith(targetPath, rulePath) THEN Substring(targetPath, Len(rulePath))
                      ELSE IF urlStr = ruleUrl THEN <<>>
                      ELSE LastSegment(Pathname(urlStr))
    IN  TrimPrefix(TrimSuffix(relative, <<"/">>), <<"/">>)

\* a bundle that keeps every page on its primary file
BundlePathPrimaryOnly(urlStr, rule) == PathJoin(<<OutputDir, BundleDir(rule), FileName>>)

BundlePath(urlStr, rule) ==
    LET relative == BundleRelative(urlStr, rule)
    IN  IF relative = <<>>
        THEN PathJoin(<<OutputDir, BundleDir(rule), FileName>>)
        ELSE PathJoin(<<OutputDir, BundleDir(rule), <<"references">>,
                        ReplaceAll(relative, "/", "_") \o <<".", "md">>>>)

\* the flat branch: one directory named after host and path
FlatDirName(urlStr) ==
    LET s1 == TrimSuffix(Pathname(urlStr), <<".", "html">>)
        s2 == TrimSuffix(s1, <<"/", "index">>)
        s3 == TrimSuffix(s2, <<"/">>)
        s4 == TrimPrefix(s3, <<"/">>)
        s5 == ReplaceAll(s4, "%20", "_")
        segment == ReplaceAll(s5, "/", "_")
        cleanDomain == CleanDomain(Hostname(urlStr))
    IN  IF segment # <<>> THEN cleanDomain \o <<"_">> \o segment ELSE cleanDomain

FlatPath(urlStr) == PathJoin(<<OutputDir, FlatDirName(urlStr), FileName>>)

\* the hierarchical branch: the output tree mirrors host and path
HierarchicalPath(urlStr) ==
    LET p0 == Pathname(urlStr)
        p1 == IF EndsWith(p0, <<"/">>) \/ p0 = <<>> THEN PathJoin(<<p0, <<"index">>>>) ELSE p0
        filePath == IF PathExtname(p1) = <<>> THEN p1 \o <<".", "md">> ELSE p1
    IN  IF config.file_rename # <<>>
        THEN PathJoin(<<PathJoin(<<OutputDir, Hostname(urlStr), PathDirname(filePath)>>),
                        config.file_rename>>)
        ELSE LET finalPath == PathJoin(<<OutputDir, Hostname(urlStr), filePath>>)
             IN  IF EndsWith(finalPath, <<".", "md">>) THEN finalPath
                 ELSE finalPath \o <<".", "md">>

\* a derivation that steps aside when the path is taken
GetFilePathAvoiding(urlStr, rule) ==
    LET p == IF rule.bundle THEN BundlePath(urlStr, rule)
             ELSE IF config.flat THEN FlatPath(urlStr)
             ELSE HierarchicalPath(urlStr)
    IN  IF p \in DOMAIN disk THEN p \o <<"~">> ELSE p

GetFilePath(urlStr, rule) ==
    IF rule.bundle THEN BundlePath(urlStr, rule)
    ELSE IF config.flat THEN FlatPath(urlStr)
    ELSE HierarchicalPath(urlStr)

\* crawler/Crawler.ts saveFile: no bundles, and "%20" is kept in flat names
LegacyFlatDirName(urlStr) ==
    LET s1 == TrimSuffix(Pathname(urlStr), <<".", "html">>)
        s2 == TrimSuffix(s1, <<"/", "index">>)
        s3 == TrimSuffix(s2, <<"/">>)
        s4 == TrimPrefix(s3, <<"/">>)
        segment == ReplaceAll(s4, "/", "_")
        cleanDomain == CleanDomain(Hostname(urlStr))
    IN  IF segment # <<>> THEN cleanDomain \o <<"_">> \o segment ELSE cleanDomain

LegacyFilePath(urlStr) ==
    IF config.flat THEN PathJoin(<<OutputDir, LegacyFlatDirName(urlStr), FileName>>)
    ELSE HierarchicalPath(urlStr)

\* the two crawlers of the extension: part_004 ("current") and
\* crawler/Crawler.ts ("legacy")
FilePathOf(impl, urlStr, rule) ==
    IF impl = "legacy" THEN LegacyFilePath(urlStr) ELSE GetFilePath(urlStr, rule)

(***************************************************************************)
(* Crawler.sanitizeName, Crawler.sanitizeDescription, the frontmatter      *)
(***************************************************************************)
NameMax == 64
DescMax == 1024

ToLower(c) == CASE c = "A" -> "a" [] c = "B" -> "b" [] c = "U" -> "u" [] OTHER -> c

\* [a-z0-9-]
SlugChars == {"a", "b", "c", "d", "e", "f", "g", "h", "i", "j", "k", "l", "m",
              "n", "o", "p", "q", "r", "s", "t", "u", "v", "w", "x", "y", "z",
              "0", "1", "2", "3", "4", "5", "6", "7", "8", "9", "-"}

RECURSIVE CollapseOthers(_)
\* s.replace(/[^a-z0-9-]+/g, '-')
CollapseOthers(s) ==
    IF s = <<>> THEN <<>>
    ELSE IF s[1] \in SlugChars THEN <<s[1]>> \o CollapseOthers(Tail(s))
    ELSE IF Len(s) >= 2 /\ s[2] \notin SlugChars THEN CollapseOthers(Tail(s))
    ELSE <<"-">> \o CollapseOthers(Tail(s))

RECURSIVE TrimLeft(_, _)
TrimLeft(s, cs) == IF s # <<>> /\ s[1] \in cs THEN TrimLeft(Tail(s), cs) ELSE s

RECURSIVE TrimRight(_, _)
TrimRight(s, cs) == IF s # <<>> /\ s[Len(s)] \in cs THEN TrimRight(DropLast(s), cs) ELSE s

SanitizeName(title) ==
    LET s1 == [i \in 1..Len(title) |-> ToLower(title[i])]
        s2 == CollapseOthers(s1)
        s3 == TrimRight(TrimLeft(s2, {"-"}), {"-"})
        s4 == IF Len(s3) > NameMax THEN TrimRight(SubSeq(s3, 1, NameMax), {"-"}) ELSE s3
    IN  IF s4 # <<>> THEN s4 ELSE <<"untitled">>

SanitizeDescription(d) ==
    LET s == TrimRight(TrimLeft(d, {" ", "\n"}), {" ", "\n"})
    IN  IF s = <<>> THEN <<"No description available.">>
        ELSE IF Len(s) > DescMax THEN SubSeq(s, 1, DescMax) \o <<".", ".", ".">>
        ELSE s

Dashes == <<"-", "-", "-">>

\* new Date().toUTCString(): one time stamp per run
Now(r) == <<ToString(r)>>

\* processPage: the document written for a page
Document(url, title, description, lastModified) ==
    Dashes \o <<"\n", "name: ">> \o SanitizeName(title)
           \o <<"\n", "description: ">> \o SanitizeDescription(description)
           \o <<"\n", "metadata:", "\n", "  url: ">> \o url
           \o <<"\n", "  last_modified: ">> \o lastModified
           \o <<"\n">> \o Dashes \o <<"\n", "\n", "# ">> \o title \o <<"\n", "\n", "markdown">>

RECURSIVE SplitLines(_)
SplitLines(s) ==
    LET n == FirstOf(s, {"\n"})
    IN  IF n > Len(s) THEN <<s>>
        ELSE <<SubSeq(s, 1, n - 1)>> \o SplitLines(Substring(s, n))

\* yaml.load(fm) throws on a plain scalar that holds ": "
YamlThrows(fm) ==
    LET lines == SplitLines(fm)
    IN  \E i \in 1..Len(lines) : Includes(lines[i], <<":", " ">>)

\* meta?.metadata?.last_modified of yaml.load(fm); <<>> when absent or null
YamlLastModified(fm) ==
    LET lines == SplitLines(fm)
        hits  == {i \in 1..Len(lines) : lines[i] # <<>> /\ lines[i][1] = "  last_modified: "}
    IN  IF hits = {} THEN <<>> ELSE Tail(lines[CHOOSE i \in hits : TRUE])

\* visit, lines 102-112: the If-Modified-Since value read from an existing
\* document, <<>> when no header is set
StoredLastModified(content) ==
    IF ~StartsWith(content, Dashes) THEN <<>>
    ELSE LET end == IndexOf(content, Dashes, 3)
         IN  IF end <= 3 THEN <<>>
             ELSE LET fm == SubSeq(content, 4, end)
                  IN  IF YamlThrows(fm) THEN <<>> ELSE YamlLastModified(fm)

(***************************************************************************)
(* Go CLI: getOutputPath, saveResponse, toPathCase                         *)
(***************************************************************************)
\* u.Path: the path as written, "" when the URL has none, percent-decoded
GoUrlPath(s) ==
    LET rest == Substring(s, 1)
        from == FirstOf(rest, {"/", "?", "#"})
        tail == SubSeq(rest, from, Len(rest))
    IN  ReplaceAll(SubSeq(tail, 1, FirstOf(tail, {"?", "#"}) - 1), "%20", " ")

\* filepath.Join: as path.join, and Clean drops a trailing separator
GoJoin(parts) ==
    LET j == PathJoin(parts)
    IN  IF Len(j) > 1 /\ EndsWith(j, <<"/">>) THEN DropLast(j) ELSE j

\* filepath.Ext: from the last "." of the last element
GoExt(p) ==
    LET base == LastSegment(p)
        dots == {i \in 1..Len(base) : base[i] = "."}
    IN  IF dots = {} THEN <<>>
        ELSE SubSeq(base, CHOOSE i \in dots : \A j \in dots : j <= i, Len(base))

IndexHtml == <<"index", ".", "html">>

\* a flat directory name that keeps a trailing "/index"
GoFlatDirNameKeepingIndex(urlStr) ==
    LET s1 == TrimSuffix(GoUrlPath(urlStr), <<".", "html">>)
        s3 == TrimSuffix(s1, <<"/">>)
        s4 == TrimPrefix(s3, <<"/">>)
        segment == ReplaceAll(s4, "/", "_")
        cleanDomain == CleanDomain(Hostname(urlStr))
    IN  IF segment = <<>> THEN cleanDomain ELSE cleanDomain \o <<"_">> \o segment

\* getOutputPath, lines 268-293: the flat directory name
GoFlatDirName(urlStr) ==
    LET s1 == TrimSuffix(GoUrlPath(urlStr), <<".", "html">>)
        s2 == TrimSuffix(s1, <<"/", "index">>)
        s3 == TrimSuffix(s2, <<"/">>)
        s4 == TrimPrefix(s3, <<"/">>)
        segment == ReplaceAll(s4, "/", "_")
        cleanDomain == CleanDomain(Hostname(urlStr))
    IN  IF segment = <<>> THEN cleanDomain ELSE cleanDomain \o <<"_">> \o segment

\* getOutputPath: the path of the raw HTML capture (its second result)
GetOutputPath(urlStr, flat) ==
    LET p0   == GoUrlPath(urlStr)
        path == IF p0 = <<>> \/ EndsWith(p0, <<"/">>) THEN GoJoin(<<p0, IndexHtml>>)
                ELSE IF ~EndsWith(p0, <<".", "html">>) /\ GoExt(p0) = <<>>
                THEN GoJoin(<<p0, IndexHtml>>)
                ELSE p0
    IN  IF flat THEN GoJoin(<<OutputDir, GoFlatDirName(urlStr), IndexHtml>>)
        ELSE GoJoin(<<OutputDir, Hostname(urlStr), path>>)

\* a skill path that is the capture's path with ".md" appended
GoMdPathAppending(urlStr, flat, rename) == GetOutputPath(urlStr, flat) \o <<".", "md">>

\* saveResponse, lines 383-394: the path of the skill document
GoMdPath(urlStr, flat, rename) ==
    LET fullPath == GetOutputPath(urlStr, flat)
    IN  IF rename # <<>> THEN GoJoin(<<PathDirname(fullPath), rename>>)
        ELSE IF EndsWith(fullPath, <<".", "html">>)
        THEN TrimSuffix(fullPath, <<".", "html">>) \o <<".", "md">>
        ELSE fullPath \o <<".", "md">>

AlphaNum == SlugChars \ {"-"}

RECURSIVE CollapseNonAlphaNum(_)
\* regexp [^a-z0-9]+ replaced by "-"
CollapseNonAlphaNum(s) ==
    IF s = <<>> THEN <<>>
    ELSE IF s[1] \in AlphaNum THEN <<s[1]>> \o CollapseNonAlphaNum(Tail(s))
    ELSE IF Len(s) >= 2 /\ s[2] \notin AlphaNum THEN CollapseNonAlphaNum(Tail(s))
    ELSE <<"-">> \o CollapseNonAlphaNum(Tail(s))

ToPathCase(title) ==
    TrimRight(TrimLeft(CollapseNonAlphaNum([i \in 1..Len(title) |-> ToLower(title[i])]),
                       {"-"}), {"-"})

\* saveResponse, lines 333-365: the name field of the frontmatter
GoName(urlStr, flat, title) ==
    IF flat THEN LastSegment(PathDirname(GetOutputPath(urlStr, flat)))
    ELSE ToPathCase(IF title = <<>> THEN <<"U", "n", "t", "i", "t", "l", "e", "d">> ELSE title)

\* what saveResponse leaves for a page: the skill document's path and name
GoSavedDocument(urlStr, title) ==
    [url |-> urlStr, path |-> GoMdPath(urlStr, config.flat, config.file_rename),
     name |-> GoName(urlStr, config.flat, title)]

(***************************************************************************)
(* Inputs: rule URLs, hyperlinks, pages, server responses                  *)
(***************************************************************************)
MaxRules == 2
MaxLinks == 2
MaxRuns  == 2

\* the decimal digit of a page number
DigitOf(i) == CASE i = 1 -> "1" [] i = 2 -> "2" [] i = 3 -> "3" [] i = 4 -> "4"
                [] i = 5 -> "5" [] OTHER -> "6"

Root      == <<Scheme, "e", ".", "c", "/", "p">>          \* https://e.c/p
RootSlash == Root \o <<"/">>                              \* https://e.c/p/
Page1     == Root \o <<"/", "1">>                         \* https://e.c/p/1
Page1Frag == Page1 \o <<"#", "f">>                        \* https://e.c/p/1#f
Sibling   == Root \o <<"-", "x">>                         \* https://e.c/p-x
Other1    == <<Scheme, "o", ".", "c", "/", "p", "/", "1">> \* https://o.c/p/1
Relative1 == <<"/", "p", "/", "1">>                       \* /p/1
NoHost    == <<Scheme>>                                   \* https:// (not a URL)

RuleUrls == {Root, Page1}
Hrefs    == {Root, Page1, Page1Frag, Sibling}

Rule(url, action, subpaths, bundle) ==
    [url |-> url, action |-> action, subpaths |-> subpaths, bundle |-> bundle]

\* the rules of the traversal: the extension reads subpaths of include rules only
Rules == {Rule(u, "include", sp, FALSE) : u \in RuleUrls, sp \in BOOLEAN}
         \cup {Rule(u, "ignore", FALSE, FALSE) : u \in RuleUrls}

RuleLists == UNION {[1..n -> Rules] : n \in 1..MaxRules}

Configs == [flat : {FALSE}, file_rename : {<<>>}, rules : RuleLists]

LinkLists == UNION {[1..n -> Hrefs] : n \in 0..MaxLinks}

NoPage == [title |-> <<>>, description |-> <<>>]

\* what cheerio extracts from a page: title and description
Pages == {[title |-> <<"A", " ", "b">>, description |-> <<"d">>]}

\* a response: status 0 stands for a rejected request (transport failure or a
\* status that validateStatus refuses); ct is the class of the content-type
\* header; feed tells whether the body passes extractLinksFromXml's test
ResponsesOver(lists, pages) ==
    [status : {0, 304, 200}, ct : {"other"}, feed : {FALSE}, links : {<<>>}, page : {NoPage}]
    \cup [status : {200}, ct : {"html"}, feed : {FALSE}, links : lists, page : pages]
    \cup [status : {200}, ct : {"xml"}, feed : {TRUE}, links : lists, page : {NoPage}]
    \cup [status : {200}, ct : {"xml"}, feed : {FALSE}, links : {<<>>}, page : {NoPage}]

Responses == ResponsesOver(LinkLists, Pages)

(***************************************************************************)
(* Crawler.shouldIgnore and the scope check of visit                       *)
(***************************************************************************)
ShouldIgnore(url) ==
    \E i \in 1..Len(config.rules) :
        /\ config.rules[i].action = "ignore"
        /\ (url = config.rules[i].url \/ StartsWith(url, config.rules[i].url))

\* visit, lines 161-164
InScope(absoluteUrl, rule) ==
    LET ruleUrl     == IF EndsWith(rule.url, <<"/">>) THEN DropLast(rule.url) ELSE rule.url
        targetCheck == IF EndsWith(absoluteUrl, <<"/">>) THEN DropLast(absoluteUrl)
                       ELSE absoluteUrl
    IN  targetCheck = ruleUrl \/ StartsWith(targetCheck, ruleUrl \o <<"/">>)

\* crawler/Crawler.ts, line 108
LegacyInScope(absoluteUrl, rule) == StartsWith(absoluteUrl, rule.url)

ScopeCheck(impl, absoluteUrl, rule) ==
    IF impl = "legacy" THEN LegacyInScope(absoluteUrl, rule) ELSE InScope(absoluteUrl, rule)

RECURSIVE HtmlLinks(_, _, _, _)
\* visit, lines 153-171: the hrefs of a page that pass the scope check
HtmlLinks(impl, hrefs, cleanUrl, rule) ==
    IF hrefs = <<>> THEN <<>>
    ELSE LET rest == HtmlLinks(impl, Tail(hrefs), cleanUrl, rule)
             href == Head(hrefs)
         IN  IF ~CanResolve(href, cleanUrl) THEN rest
             ELSE LET absoluteUrl == StripHash(Resolve(href, cleanUrl))
                  IN  IF ScopeCheck(impl, absoluteUrl, rule) THEN <<absoluteUrl>> \o rest
                      ELSE rest

\* extractLinksFromXml: the entries of a recognized feed
ExtractLinksFromXml(resp) == IF resp.feed THEN resp.links ELSE <<>>

(***************************************************************************)
(* Go CLI rule engine: loadRules, shouldVisit, getSeedURL                  *)
(***************************************************************************)
RECURSIVE GlobMatch(_, _)
\* glob.Compile(pattern).Match(s): "*" stands for any run of characters
GlobMatch(pattern, s) ==
    IF pattern = <<>> THEN s = <<>>
    ELSE IF pattern[1] = "*"
    THEN \E k \in 0..Len(s) : GlobMatch(Tail(pattern), Substring(s, k))
    ELSE s # <<>> /\ s[1] = pattern[1] /\ GlobMatch(Tail(pattern), Tail(s))

\* loadRules, lines 213-227: the pattern line of a structured rule
RulePattern(rule) ==
    LET pat == IF rule.subpaths /\ ~EndsWith(rule.url, <<"*">>)
               THEN (IF EndsWith(rule.url, <<"/">>) THEN rule.url ELSE rule.url \o <<"/">>)
                    \o <<"*">>
               ELSE rule.url
    IN  IF rule.action = "ignore" THEN <<"!">> \o pat ELSE pat

\* processPattern: the line is dropped when blank or a comment
PatternKept(line) ==
    LET pattern == TrimRight(TrimLeft(line, {" "}), {" "})
    IN  pattern # <<>> /\ pattern[1] # "#"

PatternIsIgnore(line) == StartsWith(TrimRight(TrimLeft(line, {" "}), {" "}), <<"!">>)

PatternGlob(line) == TrimPrefix(TrimRight(TrimLeft(line, {" "}), {" "}), <<"!">>)

RECURSIVE SelectGlobs(_, _)
SelectGlobs(lines, ignore) ==
    IF lines = <<>> THEN <<>>
    ELSE IF PatternKept(Head(lines)) /\ PatternIsIgnore(Head(lines)) = ignore
    THEN <<PatternGlob(Head(lines))>> \o SelectGlobs(Tail(lines), ignore)
    ELSE SelectGlobs(Tail(lines), ignore)

\* loadRules: the allowed and the ignored globs, in declaration order
LoadRules(rules) ==
    LET lines == [i \in 1..Len(rules) |-> RulePattern(rules[i])]
    IN  [allowed |-> SelectGlobs(lines, FALSE), ignored |-> SelectGlobs(lines, TRUE)]

\* a rule engine that lets the first matching list win, allowed first
ShouldVisitAllowFirst(link, allowed, ignored) ==
    \E i \in 1..Len(allowed) : GlobMatch(allowed[i], link)

ShouldVisit(link, allowed, ignored) ==
    IF \E i \in 1..Len(ignored) : GlobMatch(ignored[i], link) THEN FALSE
    ELSE \E i \in 1..Len(allowed) : GlobMatch(allowed[i], link)

\* getSeedURL: everything before the first wildcard
GetSeedURL(pattern) == SubSeq(pattern, 1, FirstOf(pattern, {"*"}) - 1)

(***************************************************************************)
(* Crawler.crawl and Crawler.visit.  JavaScript runs a handler to its next *)
(* await: Run carries the crawler from one axios.get to the next.          *)
(***************************************************************************)
NoRequest == [url |-> <<>>, ims |-> <<>>]

Machine ==
    [visited |-> visited, frames |-> frames, ruleIdx |-> ruleIdx, phase |-> phase,
     inflight |-> inflight, disk |-> disk, fetches |-> fetches, mined |-> mined,
     writes |-> writes, derived |-> derived]

Derivation(impl, urlStr, rule) ==
    [url |-> urlStr, ruleUrl |-> rule.url, bundle |-> rule.bundle,
     path |-> FilePathOf(impl, urlStr, rule)]

Count(f, u) == IF u \in DOMAIN f THEN f[u] ELSE 0

\* a crawler that forgets to record the URL it is about to fetch
MarkVisitedNever(vis, cleanUrl) == vis

\* a saveFile that writes one file per run
SaveFileVersioned(impl, files, cleanUrl, rule, page, r) ==
    ((FilePathOf(impl, cleanUrl, rule) \o <<".">> \o Now(r)) :>
        Document(cleanUrl, page.title, page.description, Now(r))) @@ files

\* a saveFile that keeps a document that is already there
SaveFileKeeping(impl, files, cleanUrl, rule, page, r) ==
    files @@ (FilePathOf(impl, cleanUrl, rule) :>
                Document(cleanUrl, page.title, page.description, Now(r)))

\* line 93: the visited set once visit() has accepted cleanUrl
MarkVisited(vis, cleanUrl) == vis \cup {cleanUrl}

\* lines 85-91: visit() returns early
SkipVisit(vis, cleanUrl) == cleanUrl \in vis \/ ShouldIgnore(cleanUrl)

\* lines 98-117: the conditional header of the request for cleanUrl
ConditionalHeader(files, cleanUrl, rule) ==
    LET existingPath == GetFilePath(cleanUrl, rule)
    IN  IF existingPath \in DOMAIN files THEN StoredLastModified(files[existingPath])
        ELSE <<>>

\* an exception leaves visit(): the caller's catch ends the calling visit(),
\* and crawl() itself rejects when the caller is its loop over the rules
Throw(m) ==
    IF m.frames = <<>> THEN [m EXCEPT !.phase = "failed"]
    ELSE [m EXCEPT !.frames = DropLast(@)]

\* visit(url, rule) up to its await of axios.get; the legacy crawler sends
\* no conditional header
EnterVisit(impl, m, url, rule) ==
    IF ~ValidURL(url) THEN Throw(m)
    ELSE LET cleanUrl == StripHash(url)
         IN  IF SkipVisit(m.visited, cleanUrl) THEN m
             ELSE [m EXCEPT
                     !.visited  = MarkVisited(@, cleanUrl),
                     !.frames   = Append(@, [url |-> cleanUrl, rule |-> rule, links |-> <<>>]),
                     !.phase    = "fetching",
                     !.inflight = [url |-> cleanUrl,
                                   ims |-> IF impl = "legacy" THEN <<>>
                                           ELSE ConditionalHeader(m.disk, cleanUrl, rule)],
                     !.fetches  = (cleanUrl :> (Count(@, cleanUrl) + 1)) @@ @,
                     !.derived  = IF impl = "legacy" THEN @
                                  ELSE @ \cup {Derivation(impl, cleanUrl, rule)}]

\* one synchronous step: the next link of the innermost visit(), its return,
\* or the next rule of crawl()
Continue(impl, m) ==
    IF m.frames = <<>>
    THEN IF m.ruleIdx > Len(config.rules) THEN [m EXCEPT !.phase = "done"]
         ELSE LET rule == config.rules[m.ruleIdx]
                  m1   == [m EXCEPT !.ruleIdx = @ + 1]
              IN  IF rule.action = "include" THEN EnterVisit(impl, m1, rule.url, rule)
                  ELSE m1
    ELSE LET n   == Len(m.frames)
             top == m.frames[n]
         IN  IF top.links = <<>> THEN [m EXCEPT !.frames = DropLast(@)]
             ELSE EnterVisit(impl, [m EXCEPT !.frames[n].links = Tail(@)],
                             Head(top.links), top.rule)

RECURSIVE Run(_, _)
Run(impl, m) == IF m.phase # "running" THEN m ELSE Run(impl, Continue(impl, m))

\* processPage and saveFile: the document of an HTML page is written
SaveFile(impl, files, cleanUrl, rule, page, r) ==
    (FilePathOf(impl, cleanUrl, rule) :>
        Document(cleanUrl, page.title, page.description, Now(r))) @@ files

\* the URLs that the hrefs or feed entries of a body stand for
BodyUrls(links, base) ==
    {StripHash(Resolve(links[i], base)) :
        i \in {j \in 1..Len(links) : CanResolve(links[j], base)}}

\* a page whose host's sitemap is looked up as well
PageLinksWithSitemap(impl, hrefs, cleanUrl, rule) ==
    <<<<Scheme>> \o Hostname(cleanUrl) \o <<"/", "sitemap", ".", "xml">>>>
    \o (IF rule.subpaths THEN HtmlLinks(impl, hrefs, cleanUrl, rule) ELSE <<>>)

\* visit, lines 140 and 151-172: the links of an HTML page
PageLinks(impl, hrefs, cleanUrl, rule) ==
    IF rule.subpaths THEN HtmlLinks(impl, hrefs, cleanUrl, rule) ELSE <<>>

\* a visit() that takes every answer with a body for a page, whatever its
\* content type
HandleResponseAnyType(impl, m, resp) ==
    LET n        == Len(m.frames)
        cleanUrl == m.frames[n].url
        rule     == m.frames[n].rule
        m0       == [m EXCEPT !.phase = "running", !.inflight = NoRequest]
    IN  IF resp.status \in {0, 304} THEN [m0 EXCEPT !.frames = DropLast(@)]
        ELSE [m0 EXCEPT !.disk = SaveFile(impl, @, cleanUrl, rule, resp.page, run),
                        !.writes = @ \cup {[path |-> FilePathOf(impl, cleanUrl, rule),
                                             url |-> cleanUrl]},
                        !.frames[n].links = PageLinks(impl, resp.links, cleanUrl, rule)]

\* a visit() that sends a failed request again, without end, in turn with
\* and without a conditional header
HandleResponseRetrying(impl, m, resp) ==
    IF resp.status = 0
    THEN [m EXCEPT !.inflight.ims = IF @ = <<>> THEN <<"retry">> ELSE <<>>]
    ELSE [m EXCEPT !.phase = "running", !.inflight = NoRequest,
                   !.frames = DropLast(@)]

\* visit() from the response on, up to the first link; the legacy crawler
\* lets axios reject every status outside 2xx and reads HTML only
HandleResponse(impl, m, resp) ==
    LET n        == Len(m.frames)
        cleanUrl == m.frames[n].url
        rule     == m.frames[n].rule
        isXml    == impl # "legacy"
                    /\ (EndsWith(cleanUrl, <<".", "xml">>) \/ resp.ct = "xml")
        isHtml   == resp.ct = "html"
        m0       == [m EXCEPT !.phase = "running", !.inflight = NoRequest]
        return   == [m0 EXCEPT !.frames = DropLast(@)]
    IN  IF resp.status = 0 THEN return
        ELSE IF resp.status = 304 THEN return
        ELSE IF ~isHtml /\ ~isXml THEN return
        ELSE IF isXml
        THEN [m0 EXCEPT !.frames[n].links = ExtractLinksFromXml(resp),
                        !.mined = @ \cup BodyUrls(resp.links, cleanUrl)]
        ELSE LET links == PageLinks(impl, resp.links, cleanUrl, rule)
             IN  [m0 EXCEPT !.disk = SaveFile(impl, @, cleanUrl, rule, resp.page, run),
                            !.writes = @ \cup {[path |-> FilePathOf(impl, cleanUrl, rule),
                                                 url |-> cleanUrl]},
                            !.derived = @ \cup {Derivation(impl, cleanUrl, rule)},
                            !.frames[n].links = links,
                            !.mined = @ \cup BodyUrls(resp.links, cleanUrl)]

Install(m) ==
    /\ visited' = m.visited
    /\ frames' = m.frames
    /\ ruleIdx' = m.ruleIdx
    /\ phase' = m.phase
    /\ inflight' = m.inflight
    /\ disk' = m.disk
    /\ fetches' = m.fetches
    /\ mined' = m.mined
    /\ writes' = m.writes
    /\ derived' = m.derived

(***************************************************************************)
(* The state machine                                                       *)
(***************************************************************************)
\* no fixed site: every request may get any answer
NoServer == <<>>

\* a Crawler constructed over an empty output directory
InitCrawler(configs) ==
    /\ config \in configs
    /\ visited = {}
    /\ frames = <<>>
    /\ ruleIdx = 1
    /\ phase = "idle"
    /\ inflight = NoRequest
    /\ disk = <<>>
    /\ run = 0
    /\ fetches = <<>>
    /\ mined = {}
    /\ writes = {}
    /\ derived = {}

NoState == <<>>

\* no webview is open
UiIdle ==
    /\ view = NoState
    /\ stored = NoState
    /\ toHost = <<>>
    /\ toView = <<>>
    /\ task = "none"
    /\ cancelRequested = FALSE
    /\ lastEdit = [n |-> 0, state |-> NoState]

\* no project is scanned
ScanIdle ==
    /\ manifest = [has |-> {}, npm |-> <<>>, pub |-> <<>>, go |-> <<>>]
    /\ emitted = [returned |-> FALSE, rules |-> <<>>]

InitFrom(configs) == server = NoServer /\ InitCrawler(configs) /\ UiIdle /\ ScanIdle

\* crawl() is called: the visited set is cleared and the first rules are
\* processed up to the first request
CrawlWith(impl, limit) ==
    /\ phase \in {"idle", "done", "failed"}
    /\ run < limit
    /\ run' = run + 1
    /\ Install(Run(impl, [Machine EXCEPT !.visited = {}, !.ruleIdx = 1, !.phase = "running",
                                   !.fetches = <<>>, !.mined = {}, !.writes = {}]))
    /\ UNCHANGED <<config, engineVars, goVars, envVars>>

\* axios.get settles: the rest of visit() runs, then whatever follows it up
\* to the next request
RespondWith(impl, responses) ==
    /\ phase = "fetching"
    /\ \E resp \in responses : Install(Run(impl, HandleResponse(impl, Machine, resp)))
    /\ UNCHANGED <<config, run, engineVars, goVars, envVars>>

Crawl == CrawlWith("current", 1)

Respond == RespondWith("current", Responses)

GoIdle ==
    /\ goPhase = "start"
    /\ goVisited = {}
    /\ goQueue = {}
    /\ goActive = {}
    /\ goFetched = {}
    /\ goSaved = {}

Init == InitFrom(Configs) /\ probe = <<>> /\ verdict = "none" /\ GoIdle

Next == Crawl \/ Respond

Spec == Init /\ [][Next]_vars

(***************************************************************************)
(* The crawler of crawler/Crawler.ts, the class SkillsViewProvider imports *)
(***************************************************************************)
LegacyCrawl == CrawlWith("legacy", 1)

LegacyRespond == RespondWith("legacy", Responses)

NextLegacy == LegacyCrawl \/ LegacyRespond

SpecLegacy == Init /\ [][NextLegacy]_vars

(***************************************************************************)
(* Reruns over an output directory that keeps the documents of the earlier *)
(* runs: one include rule, pages whose title or description reach the      *)
(* frontmatter, every output mode                                          *)
(***************************************************************************)
RefetchConfigs ==
    [flat : BOOLEAN, file_rename : {<<>>, <<"README.md">>},
     rules : {<<Rule(Root, "include", FALSE, b)>> : b \in BOOLEAN}]

RefetchPages ==
    Pages \cup {[title |-> <<"a", "-", "-", "-", "b">>, description |-> <<"d">>],
                [title |-> <<"A">>, description |-> <<"d", ":", " ", "e">>]}

RefetchResponses == ResponsesOver({<<>>}, RefetchPages)

InitRefetch == InitFrom(RefetchConfigs) /\ probe = <<>> /\ verdict = "none" /\ GoIdle

Recrawl == CrawlWith("current", MaxRuns)

RefetchRespond == RespondWith("current", RefetchResponses)

NextRefetch == Recrawl \/ RefetchRespond

SpecRefetch == InitRefetch /\ [][NextRefetch]_vars

(***************************************************************************)
(* Feeds and sitemaps whose entries need not be absolute URLs              *)
(***************************************************************************)
FeedConfigs ==
    [flat : {FALSE}, file_rename : {<<>>},
     rules : {<<Rule(Root, "include", sp, FALSE)>> : sp \in BOOLEAN}
             \cup {<<Rule(Page1, "ignore", FALSE, FALSE), Rule(Root, "include", sp, FALSE)>> :
                      sp \in BOOLEAN}]

FeedEntries == {Page1, Page1Frag, Sibling, Relative1}

FeedLinkLists == UNION {[1..n -> FeedEntries] : n \in 0..MaxLinks}

FeedResponses == ResponsesOver(FeedLinkLists, Pages)

InitFeed == InitFrom(FeedConfigs) /\ probe = <<>> /\ verdict = "none" /\ GoIdle

FeedCrawl == CrawlWith("current", 1)

FeedRespond == RespondWith("current", FeedResponses)

NextFeed == FeedCrawl \/ FeedRespond

SpecFeed == InitFeed /\ [][NextFeed]_vars

(***************************************************************************)
(* One run in every output mode: a rule with subpaths, pages that link to  *)
(* the rule's URL with a trailing slash and to a page below it             *)
(***************************************************************************)
PathConfigs ==
    [flat : BOOLEAN, file_rename : {<<>>, <<"README.md">>},
     rules : {<<Rule(Root, "include", TRUE, b)>> : b \in BOOLEAN}]

PathHrefs == {RootSlash, Page1}

PathLinkLists == UNION {[1..n -> PathHrefs] : n \in 0..MaxLinks}

PathResponses == ResponsesOver(PathLinkLists, Pages)

InitPaths == InitFrom(PathConfigs) /\ probe = <<>> /\ verdict = "none" /\ GoIdle

PathCrawl == CrawlWith("current", 1)

PathRespond == RespondWith("current", PathResponses)

NextPaths == PathCrawl \/ PathRespond

SpecPaths == InitPaths /\ [][NextPaths]_vars

(***************************************************************************)
(* Reruns against a site that does not change: every URL has one answer,   *)
(* and a URL that honours If-Modified-Since answers 304 to a conditional   *)
(* request                                                                 *)
(***************************************************************************)
SiteUrls == {Root, RootSlash, Page1}

SiteLinkLists == {<<>>, <<RootSlash>>, <<Page1>>, <<RootSlash, Page1>>}

\* what a URL of the site answers: nothing (the request fails), or a page
SiteAnswers ==
    [ok : {FALSE}, links : {<<>>}, conditional : {FALSE}]
    \cup [ok : {TRUE}, links : SiteLinkLists, conditional : BOOLEAN]

Sites == [SiteUrls -> SiteAnswers]

RerunConfigs ==
    [flat : BOOLEAN, file_rename : {<<>>},
     rules : {<<Rule(Root, "include", TRUE, b)>> : b \in BOOLEAN}]

\* the answer of the fixed site to the request in flight
SiteResponses ==
    LET a == server[inflight.url]
    IN  IF ~a.ok
        THEN {[status |-> 0, ct |-> "other", feed |-> FALSE, links |-> <<>>, page |-> NoPage]}
        ELSE IF a.conditional /\ inflight.ims # <<>>
        THEN {[status |-> 304, ct |-> "other", feed |-> FALSE, links |-> <<>>, page |-> NoPage]}
        ELSE {[status |-> 200, ct |-> "html", feed |-> FALSE, links |-> a.links, page |-> p] :
                 p \in Pages}

InitRerun ==
    /\ server \in Sites
    /\ UiIdle /\ ScanIdle
    /\ InitCrawler(RerunConfigs)
    /\ probe = <<>> /\ verdict = "none" /\ GoIdle

Rerun == CrawlWith("current", MaxRuns)

RerunRespond == RespondWith("current", SiteResponses)

NextRerun == Rerun \/ RerunRespond

SpecRerun == InitRerun /\ [][NextRerun]_vars

(***************************************************************************)
(* One run with failures: rule URLs and feed entries that do not parse,    *)
(* requests that fail                                                      *)
(***************************************************************************)
FaultRules == {Rule(Root, "include", TRUE, FALSE), Rule(NoHost, "include", TRUE, FALSE)}

FaultConfigs ==
    [flat : {FALSE}, file_rename : {<<>>},
     rules : UNION {[1..n -> FaultRules] : n \in 1..MaxRules}]

FaultEntries == {RootSlash, Page1, NoHost}

FaultLinkLists == UNION {[1..n -> FaultEntries] : n \in 0..MaxLinks}

FaultResponses == ResponsesOver(FaultLinkLists, Pages)

InitFault == InitFrom(FaultConfigs) /\ probe = <<>> /\ verdict = "none" /\ GoIdle

FaultCrawl == CrawlWith("current", 1)

FaultRespond == RespondWith("current", FaultResponses)

NextFault == FaultCrawl \/ FaultRespond

SpecFault == InitFault /\ [][NextFault]_vars

(***************************************************************************)
(* The webview and the view provider: edits, saveState, runCrawl with its  *)
(* progress task, updateState                                              *)
(***************************************************************************)
MaxEdits == 2

SessionConfigs ==
    [flat : {FALSE}, file_rename : {<<>>},
     rules : {<<Rule(Root, "include", TRUE, FALSE)>>, <<Rule(Page1, "include", TRUE, FALSE)>>}]

SessionResponses == ResponsesOver({<<>>, <<Page1>>}, Pages)

\* the webview has loaded the stored configuration (webviewReady, updateState)
InitSession ==
    /\ server = NoServer /\ InitCrawler(SessionConfigs) /\ ScanIdle
    /\ probe = <<>> /\ verdict = "none" /\ GoIdle
    /\ view = config
    /\ stored = [config |-> config, lastFetched |-> FALSE]
    /\ toHost = <<>>
    /\ toView = <<>>
    /\ task = "none"
    /\ cancelRequested = FALSE
    /\ lastEdit = [n |-> 0, state |-> NoState]

\* main.js: an input or rule listener changes the state and calls saveState()
Edit ==
    /\ lastEdit.n < MaxEdits
    /\ \E s \in SessionConfigs \ {view} :
          /\ view' = s
          /\ toHost' = Append(toHost, [type |-> "saveState", state |-> s])
          /\ lastEdit' = [n |-> lastEdit.n + 1, state |-> s]
    /\ UNCHANGED <<crawlerVars, engineVars, goVars, server, scanVars,
                   stored, toView, task, cancelRequested>>

\* main.js: the crawl button posts runCrawl with getState()
ClickCrawl ==
    /\ run = 0 /\ task = "none"
    /\ \A i \in 1..Len(toHost) : toHost[i].type # "runCrawl"
    /\ view.rules # <<>>
    /\ toHost' = Append(toHost, [type |-> "runCrawl", state |-> view])
    /\ UNCHANGED <<crawlerVars, engineVars, goVars, server, scanVars,
                   view, stored, toView, task, cancelRequested, lastEdit>>

\* onDidReceiveMessage: saveState stores the state; runCrawl opens the
\* progress task and constructs the Crawler with the posted configuration
HostReceive ==
    /\ toHost # <<>>
    /\ toHost' = Tail(toHost)
    /\ LET msg == Head(toHost)
       IN  IF msg.type = "saveState"
           THEN /\ stored' = [config |-> msg.state, lastFetched |-> FALSE]
                /\ UNCHANGED <<config, task, cancelRequested>>
           ELSE /\ config' = msg.state
                /\ task' = "running"
                /\ cancelRequested' = FALSE
                /\ UNCHANGED stored
    /\ UNCHANGED <<visited, frames, ruleIdx, phase, inflight, disk, run, fetches, mined,
                   writes, derived, engineVars, goVars, server, scanVars,
                   view, toView, lastEdit>>

\* runCrawl: crawler.crawl() is called inside the progress task
SessionCrawl == task = "running" /\ CrawlWith("current", 1)

SessionRespond == RespondWith("current", SessionResponses)

\* the user cancels the notification while the crawl awaits a request:
\* onCancellationRequested logs
Cancel ==
    /\ task = "running"
    /\ phase = "fetching"
    /\ ~cancelRequested
    /\ cancelRequested' = TRUE
    /\ UNCHANGED <<crawlerVars, engineVars, goVars, server, scanVars,
                   view, stored, toHost, toView, task, lastEdit>>

\* runCrawl after await crawler.crawl(): the configuration the crawl was
\* started with is stored with lastFetched and posted to the webview; a
\* rejected crawl() shows an error
Complete ==
    /\ task = "running"
    /\ run = 1
    /\ phase \in {"done", "failed"}
    /\ task' = "none"
    /\ IF phase = "done"
       THEN LET newState == [config |-> config, lastFetched |-> TRUE]
            IN  /\ stored' = newState
                /\ toView' = Append(toView, [type |-> "updateState", state |-> newState])
       ELSE UNCHANGED <<stored, toView>>
    /\ UNCHANGED <<crawlerVars, engineVars, goVars, server, scanVars,
                   view, toHost, cancelRequested, lastEdit>>

\* main.js: updateState sets the inputs and the rules from the message
ViewReceive ==
    /\ toView # <<>>
    /\ toView' = Tail(toView)
    /\ view' = Head(toView).state.config
    /\ UNCHANGED <<crawlerVars, engineVars, goVars, server, scanVars,
                   stored, toHost, task, cancelRequested, lastEdit>>

NextSession ==
    \/ Edit \/ ClickCrawl \/ HostReceive \/ SessionCrawl \/ SessionRespond
    \/ Cancel \/ Complete \/ ViewReceive

SpecSession == InitSession /\ [][NextSession]_vars

(***************************************************************************)
(* DependencyScanner.scan: package.json, pubspec.yaml, go.mod              *)
(***************************************************************************)
\* a version specifier is a string of tokens: operators, blanks, "/", "git",
\* and runs of other characters ("1.0.0", "file:", "x.tgz")
RangeOperators == {"^", "~", ">", "=", "<"}

NoVersion == <<"null">>

\* version.replace(/[\^~>=<]/g, '')
StripOperators(version) == SelectSeq(version, LAMBDA t : t \notin RangeOperators)

\* cleanVersion: 'latest' for an empty specifier, null for a path or a git
\* reference, else the specifier without range operators, trimmed
CleanVersion(version) ==
    IF version = <<>> THEN <<"latest">>
    ELSE LET v == TrimRight(TrimLeft(StripOperators(version), {" "}), {" "})
         IN  IF \E i \in 1..Len(v) : v[i] \in {"/", "git"} THEN NoVersion ELSE v

\* if (saneVersion): neither null nor the empty string
Truthy(v) == v # NoVersion /\ v # <<>>

NpmUrl(name, v) == <<Scheme, "www.npmjs.com", "/", "package", "/", name, "/", "v", "/">> \o v

PubUrl(name, v) == <<Scheme, "pub.dev", "/", "packages", "/", name, "/", "versions", "/">> \o v

GoUrl(module, v) == <<Scheme, "pkg.go.dev", "/", module, "@">> \o v

\* the rule object pushed for a dependency; a rule pushed without a bundle
\* key reads as not bundled
ScannedRule(url, bundle) == Rule(url, "include", TRUE, bundle)

RECURSIVE ScanNpm(_)
\* lines 26-45: the entries of dependencies, devDependencies and
\* peerDependencies, merged by name
ScanNpm(deps) ==
    IF deps = <<>> THEN <<>>
    ELSE LET saneVersion == CleanVersion(Head(deps).version)
         IN  (IF Truthy(saneVersion)
              THEN <<ScannedRule(NpmUrl(Head(deps).name, saneVersion), FALSE)>> ELSE <<>>)
             \o ScanNpm(Tail(deps))

\* lines 55-83: one entry of dependencies and dev_dependencies; its value is
\* a string, a map (with or without a version key) or null
ScanPubEntry(dep) ==
    IF dep.name \in {"flutter", "flutter_test"} THEN <<>>
    ELSE IF dep.kind = "string"
    THEN LET saneVersion == CleanVersion(dep.version)
         IN  IF Truthy(saneVersion)
             THEN <<ScannedRule(PubUrl(dep.name, saneVersion), TRUE)>> ELSE <<>>
    ELSE IF dep.kind = "map" /\ dep.version # <<>>
    THEN LET saneVersion == CleanVersion(dep.version)
         IN  IF Truthy(saneVersion)
             THEN <<ScannedRule(PubUrl(dep.name, saneVersion), TRUE)>> ELSE <<>>
    ELSE <<>>

RECURSIVE ScanPub(_)
ScanPub(deps) ==
    IF deps = <<>> THEN <<>> ELSE ScanPubEntry(Head(deps)) \o ScanPub(Tail(deps))

\* addGoRule
AddGoRule(module, version) ==
    LET cleanV == CleanVersion(<<version>>)
    IN  IF Truthy(cleanV) THEN <<ScannedRule(GoUrl(module, cleanV), FALSE)>> ELSE <<>>

\* lines 95-118: one line of go.mod, given as the parts of its trimmed text
\* between blanks; the rules it adds and whether a require block is open
GoModLine(parts, inRequire) ==
    IF Len(parts) >= 2 /\ parts[1] = "require" /\ parts[2] = "("
    THEN [rules |-> <<>>, inRequire |-> TRUE]
    ELSE IF inRequire /\ parts = <<")">>
    THEN [rules |-> <<>>, inRequire |-> FALSE]
    ELSE IF Len(parts) >= 2 /\ parts[1] = "require"
    THEN [rules |-> IF Len(parts) >= 3 THEN AddGoRule(parts[2], parts[3]) ELSE <<>>,
          inRequire |-> inRequire]
    ELSE IF inRequire
    THEN [rules |-> IF Len(parts) >= 2 THEN AddGoRule(parts[1], parts[2]) ELSE <<>>,
          inRequire |-> inRequire]
    ELSE [rules |-> <<>>, inRequire |-> inRequire]

RECURSIVE ScanGoMod(_, _)
ScanGoMod(lines, inRequire) ==
    IF lines = <<>> THEN <<>>
    ELSE LET r == GoModLine(Head(lines), inRequire)
         IN  r.rules \o ScanGoMod(Tail(lines), r.inRequire)

\* scan: the rules of the three manifests that exist, in this order
Scan(m) ==
    (IF "npm" \in m.has THEN ScanNpm(m.npm) ELSE <<>>)
    \o (IF "pub" \in m.has THEN ScanPub(m.pub) ELSE <<>>)
    \o (IF "go" \in m.has THEN ScanGoMod(m.go, FALSE) ELSE <<>>)

MaxDeps == 2
MaxLines == 3

NpmVersions ==
    {<<"1.0.0">>, <<"^", "1.0.0">>, <<">", "=", "1.0.0", " ", "<", "2.0.0">>,
     <<"file:", "..", "/", "x">>, <<"file:", "x.tgz">>,
     <<"git", "+", "https:", "/", "/", "h", "/", "r">>, <<>>}

Distinct(deps) == \A i, j \in 1..Len(deps) : deps[i].name = deps[j].name => i = j

NpmFiles ==
    {deps \in UNION {[1..n -> [name : {"a", "b"}, version : NpmVersions]] : n \in 0..MaxDeps} :
        Distinct(deps)}

PubValues ==
    [kind : {"string"}, version : {<<"^", "1.1.0">>, <<"any">>, <<">", "=", "1.0.0", " ", "<", "2.0.0">>},
     source : {"hosted"}]
    \cup [kind : {"map"}, version : {<<>>}, source : {"sdk", "path", "git"}]
    \cup [kind : {"map"}, version : {<<"^", "6.0.0">>}, source : {"hosted"}]
    \cup [kind : {"null"}, version : {<<>>}, source : {"hosted"}]

PubEntries ==
    {[name |-> n, kind |-> v.kind, version |-> v.version, source |-> v.source] :
        n \in {"flutter", "http"}, v \in PubValues}

PubFiles ==
    {deps \in UNION {[1..n -> PubEntries] : n \in 0..MaxDeps} : Distinct(deps)}

GoModLines ==
    {<<>>, <<"module", "m">>, <<"go", "1.21">>, <<"require", "(">>, <<")">>,
     <<"m1", "v1.9.1">>, <<"m2", "v0.10.0", "//", "indirect">>,
     <<"require", "m3", "v1.8.4">>, <<"//", "pinned">>}

GoModFiles == UNION {[1..n -> GoModLines] : n \in 0..MaxLines}

Manifests ==
    {[has |-> {"npm"}, npm |-> f, pub |-> <<>>, go |-> <<>>] : f \in NpmFiles}
    \cup {[has |-> {"pub"}, npm |-> <<>>, pub |-> f, go |-> <<>>] : f \in PubFiles}
    \cup {[has |-> {"go"}, npm |-> <<>>, pub |-> <<>>, go |-> f] : f \in GoModFiles}
    \cup {[has |-> {"npm", "pub", "go"},
           npm |-> <<[name |-> "a", version |-> <<"^", "1.0.0">>]>>,
           pub |-> <<[name |-> "http", kind |-> "string", version |-> <<"^", "1.1.0">>,
                      source |-> "hosted"]>>,
           go  |-> <<<<"require", "m3", "v1.8.4">>>>]}

ScanConfigs == [flat : {FALSE}, file_rename : {<<>>}, rules : {<<>>}]

InitScan ==
    /\ server = NoServer /\ InitCrawler(ScanConfigs) /\ UiIdle
    /\ probe = <<>> /\ verdict = "none" /\ GoIdle
    /\ manifest \in Manifests
    /\ emitted = [returned |-> FALSE, rules |-> <<>>]

\* DependencyScanner.scan(rootPath) is called
ScanProject ==
    /\ manifest.has # {}
    /\ ~emitted.returned
    /\ emitted' = [returned |-> TRUE, rules |-> Scan(manifest)]
    /\ UNCHANGED <<crawlerVars, engineVars, goVars, server, uiVars, manifest>>

NextScan == ScanProject

SpecScan == InitScan /\ [][NextScan]_vars

(***************************************************************************)
(* One run over a fixed link graph, every request eventually answered      *)
(***************************************************************************)
\* the link graphs over the site's URLs: a URL fails, or answers a page with
\* links, to itself and to the URLs that link to it among them
Graphs ==
    [SiteUrls -> {a \in SiteAnswers : ~a.conditional}]

GraphConfigs ==
    [flat : {FALSE}, file_rename : {<<>>},
     rules : {<<Rule(Root, "include", TRUE, FALSE)>>,
              <<Rule(Root, "include", TRUE, FALSE), Rule(Page1, "include", TRUE, FALSE)>>}]

InitGraph ==
    /\ server \in Graphs
    /\ UiIdle /\ ScanIdle
    /\ InitCrawler(GraphConfigs)
    /\ probe = <<>> /\ verdict = "none" /\ GoIdle

GraphCrawl == CrawlWith("current", 1)

GraphRespond == RespondWith("current", SiteResponses)

NextGraph == GraphCrawl \/ GraphRespond

\* axios.get settles: a request in flight is eventually answered or fails.
\* This is WF_vars(GraphRespond) with ENABLED <<GraphRespond>>_vars written
\* out: a request is in flight
RequestsSettle == []<>(phase # "fetching") \/ []<><<GraphRespond>>_vars

SpecGraph == InitGraph /\ [][NextGraph]_vars /\ RequestsSettle

(***************************************************************************)
(* Naming: one page is saved, by the extension and by the Go CLI, for      *)
(* every shape of URL, rule URL, title and output mode                     *)
(***************************************************************************)
HostOnly     == <<Scheme, "e", ".", "c">>                            \* https://e.c
HostSlash    == HostOnly \o <<"/">>                                  \* https://e.c/
HtmlUrl      == Page1 \o <<".", "html">>                             \* https://e.c/p/1.html
IndexUrl     == Root \o <<"/", "index">>                             \* https://e.c/p/index
IndexHtmlUrl == IndexUrl \o <<".", "html">>                          \* https://e.c/p/index.html
SpacedUrl    == HostOnly \o <<"/", "a", "%20", "b">>                 \* https://e.c/a%20b
VersionUrl   == Root \o <<"/", "1", ".", "1", ".", "0">>             \* https://e.c/p/1.1.0
DeepUrl      == Page1 \o <<"/", "x">>                                \* https://e.c/p/1/x
FlutterUrl   == <<Scheme, "docs", ".", "flutter", ".", "dev", "/", "get-started", "/", "install">>

NamingUrls == {Root, RootSlash, Page1, DeepUrl, HostOnly, HostSlash, HtmlUrl, IndexUrl,
               IndexHtmlUrl, SpacedUrl, VersionUrl, FlutterUrl}

NamingRuleUrls == {Root, RootSlash, HostOnly, HtmlUrl, IndexUrl}

NamingConfigs ==
    [flat : BOOLEAN, file_rename : {<<>>, <<"README.md">>},
     rules : {<<Rule(u, "include", TRUE, b)>> : u \in NamingRuleUrls, b \in BOOLEAN}]

LongTitle == [i \in 1..(NameMax + 2) |-> IF i = NameMax THEN " " ELSE "a"]

NamingTitles == {<<"A", " ", "b">>, <<"a", " ", "-", " ", "b">>, <<"!", "?">>, <<>>, LongTitle}

InitNaming ==
    /\ InitFrom(NamingConfigs)
    /\ probe \in NamingUrls /\ verdict = "none" /\ GoIdle

\* the page at the probed URL is saved: processPage and saveFile of the
\* extension, saveResponse of the Go CLI
Name ==
    /\ probe # <<>>
    /\ derived = {}
    /\ \E title \in NamingTitles :
          LET cleanUrl == StripHash(probe)
              rule     == config.rules[1]
              page     == [title |-> IF title = <<>> THEN <<"U", "n", "t", "i", "t", "l", "e", "d">>
                                     ELSE title,
                           description |-> <<"d">>]
          IN  /\ disk' = SaveFile("current", disk, cleanUrl, rule, page, run)
              /\ writes' = {[path |-> GetFilePath(cleanUrl, rule), url |-> cleanUrl]}
              /\ derived' = {Derivation("current", cleanUrl, rule)}
              /\ goSaved' = {GoSavedDocument(probe, title)}
    /\ UNCHANGED <<config, visited, frames, ruleIdx, phase, inflight, run, fetches, mined,
                   engineVars, envVars, goPhase, goVisited, goQueue, goActive, goFetched>>

NextNaming == Name

SpecNaming == InitNaming /\ [][NextNaming]_vars

(***************************************************************************)
(* The rule engines on one URL: the Go CLI's shouldVisit over the loaded   *)
(* rules, and the extension's visit() called under one of the include      *)
(* rules of the same configuration                                         *)
(***************************************************************************)
EngineRules == [url : RuleUrls, subpaths : BOOLEAN, action : {"include", "ignore"},
                bundle : {FALSE}]

EngineConfigs ==
    [flat : {FALSE}, file_rename : {<<>>},
     rules : UNION {[1..n -> EngineRules] : n \in 1..MaxRules}]

Probes == {Root, RootSlash, Page1, Page1Frag, Sibling}

IncludeRules == {i \in 1..Len(config.rules) : config.rules[i].action = "include"}

InitEngine == InitFrom(EngineConfigs) /\ probe \in Probes /\ verdict = "none" /\ GoIdle

Decide ==
    /\ verdict = "none"
    /\ probe # <<>>
    /\ LET loaded == LoadRules(config.rules)
       IN  verdict' = IF ShouldVisit(probe, loaded.allowed, loaded.ignored)
                      THEN "visit" ELSE "skip"
    /\ IF IncludeRules = {} THEN UNCHANGED crawlerVars
       ELSE /\ \E i \in IncludeRules :
                  Install(EnterVisit("current", Machine, probe, config.rules[i]))
            /\ UNCHANGED <<config, run>>
    /\ UNCHANGED <<probe, goVars, envVars>>

NextEngine == Decide

SpecEngine == InitEngine /\ [][NextEngine]_vars

(***************************************************************************)
(* Runs over several include rules, bundled or not, on a site where the    *)
(* page at the first URL may link to the second                            *)
(***************************************************************************)
BundleRules == {Rule(u, "include", TRUE, b) : u \in RuleUrls, b \in BOOLEAN}

BundleConfigs ==
    [flat : {FALSE}, file_rename : {<<>>, <<"README.md">>},
     rules : UNION {[1..n -> BundleRules] : n \in 1..MaxRules}]

InitBundles == InitFrom(BundleConfigs) /\ probe = <<>> /\ verdict = "none" /\ GoIdle

BundleCrawl == CrawlWith("current", 1)

BundleRespond == RespondWith("current", SessionResponses)

NextBundles == BundleCrawl \/ BundleRespond

SpecBundles == InitBundles /\ [][NextBundles]_vars

(***************************************************************************)
(* Go CLI runCrawl: an asynchronous collector with a parallelism limit.    *)
(* The collector accepts a URL once (its revisit filter), queues the       *)
(* request and runs the handlers of each response.                         *)
(***************************************************************************)
Parallelism == 4

GoHrefs == {Root, RootSlash, Page1, Sibling}

GoLinkLists == UNION {[1..n -> GoHrefs] : n \in 0..MaxLinks}

\* a response of the Go collector: failed, or a body with a content type
GoResponses ==
    [ok : {FALSE}, html : {FALSE}, links : {<<>>}]
    \cup [ok : {TRUE}, html : {FALSE}, links : {<<>>}]
    \cup [ok : {TRUE}, html : {TRUE}, links : GoLinkLists]

\* the title that extractMetadata finds in the pages of the Go runs
GoTitle == <<"A", " ", "b">>

\* c.Visit(u) / e.Request.Visit(u): the URLs newly accepted among us
Accepted(seen, us) == us \ seen

\* lines 137-146: the seeds of the allowed globs
Seeds(allowed) ==
    {GetSeedURL(allowed[i]) : i \in {j \in 1..Len(allowed) : GetSeedURL(allowed[j]) # <<>>}}

\* lines 96-107: the links of a page that OnHTML hands to Visit
FollowedLinks(links, loaded) ==
    {links[i] : i \in {j \in 1..Len(links) :
                          ShouldVisit(links[j], loaded.allowed, loaded.ignored)}}

InitGo ==
    /\ InitFrom(EngineConfigs) /\ probe = <<>> /\ verdict = "none" /\ GoIdle

\* runCrawl up to c.Wait(): the rules are loaded and every seed is visited
GoSeed ==
    /\ goPhase = "start"
    /\ LET seeds == Seeds(LoadRules(config.rules).allowed)
       IN  /\ goVisited' = goVisited \cup seeds
           /\ goQueue' = goQueue \cup Accepted(goVisited, seeds)
    /\ goPhase' = "crawling"
    /\ UNCHANGED <<crawlerVars, engineVars, envVars, goActive, goFetched, goSaved>>

\* a collector whose limit rule never holds a request back
HasFreeSlotAlways(active) == TRUE

\* lines 89-92: the limit rule lets a request through while fewer than
\* Parallelism requests of the matching domains are in flight
HasFreeSlot(active) == Cardinality(active) < Parallelism

\* a queued request gets a slot of the limit rule and is sent
GoFetch ==
    /\ goPhase = "crawling"
    /\ HasFreeSlot(goActive)
    /\ \E u \in goQueue :
          /\ goQueue' = goQueue \ {u}
          /\ goActive' = goActive \cup {u}
          /\ goFetched' = goFetched \cup {u}
    /\ UNCHANGED <<crawlerVars, engineVars, envVars, goPhase, goVisited, goSaved>>

\* a request settles: OnError, or OnResponse (save when allowed) and OnHTML
\* (visit the allowed links)
GoRespondWith(responses) ==
    /\ goPhase = "crawling"
    /\ \E u \in goActive, resp \in responses :
          LET loaded == LoadRules(config.rules)
              follow == IF resp.ok /\ resp.html THEN FollowedLinks(resp.links, loaded)
                        ELSE {}
          IN  /\ goActive' = goActive \ {u}
              /\ goSaved' = IF resp.ok /\ resp.html
                                /\ ShouldVisit(u, loaded.allowed, loaded.ignored)
                             THEN goSaved \cup {GoSavedDocument(u, GoTitle)} ELSE goSaved
              /\ goVisited' = goVisited \cup follow
              /\ goQueue' = goQueue \cup Accepted(goVisited, follow)
    /\ UNCHANGED <<crawlerVars, engineVars, envVars, goPhase, goFetched>>

GoRespond == GoRespondWith(GoResponses)

\* c.Wait() returns
GoFinish ==
    /\ goPhase = "crawling"
    /\ goQueue = {} /\ goActive = {}
    /\ goPhase' = "done"
    /\ UNCHANGED <<crawlerVars, engineVars, envVars, goVisited, goQueue, goActive, goFetched, goSaved>>

NextGo == GoSeed \/ GoFetch \/ GoRespond \/ GoFinish

SpecGo == InitGo /\ [][NextGo]_vars

(***************************************************************************)
(* The Go collector on a page that links to more pages than the limit rule *)
(* lets through at once                                                    *)
(***************************************************************************)
FanOut == 5

FanLinks == [i \in 1..FanOut |-> Root \o <<"/", DigitOf(i)>>]

FanConfigs ==
    [flat : BOOLEAN, file_rename : {<<>>},
     rules : {<<Rule(Root, "include", TRUE, FALSE)>>}]

FanResponses ==
    [ok : {FALSE}, html : {FALSE}, links : {<<>>}]
    \cup [ok : {TRUE}, html : {TRUE}, links : {<<>>, FanLinks}]

InitFan == InitFrom(FanConfigs) /\ probe = <<>> /\ verdict = "none" /\ GoIdle

FanRespond == GoRespondWith(FanResponses)

NextFan == GoSeed \/ GoFetch \/ FanRespond \/ GoFinish

SpecFan == InitFan /\ [][NextFan]_vars

(***************************************************************************)
(* Claims                                                                  *)
(***************************************************************************)
FetchedUrls == DOMAIN fetches

\* C1: within one run no URL is requested twice, two requested URLs never
\* differ only in their fragment, and a URL is in the visited set from the
\* moment its request is issued
C1_AtMostOneFetchPerUrl ==
    /\ \A u \in FetchedUrls : fetches[u] = 1 /\ u \in visited
    /\ \A u, v \in FetchedUrls : StripHash(u) = StripHash(v) => u = v
    /\ inflight.url # <<>> => inflight.url \in visited

\* C1 witness: Page1 is being fetched for a feed at Sibling while the feed at
\* Root, which listed Sibling first, still holds a link to Page1#f
C1_TwoParentsReached ==
    /\ Len(frames) = 3
    /\ frames[1].url = Root /\ frames[1].links = <<Page1Frag>>
    /\ frames[2].url = Sibling
    /\ inflight.url = Page1

\* the deny and allow matches of the two engines
GoDenies(link) ==
    \E i \in 1..Len(config.rules) :
        /\ config.rules[i].action = "ignore"
        /\ GlobMatch(PatternGlob(RulePattern(config.rules[i])), link)

GoAllows(link) ==
    \E i \in 1..Len(config.rules) :
        /\ config.rules[i].action = "include"
        /\ GlobMatch(PatternGlob(RulePattern(config.rules[i])), link)

ExtensionDenies(link) ==
    \E i \in 1..Len(config.rules) :
        /\ config.rules[i].action = "ignore"
        /\ StartsWith(StripHash(link), config.rules[i].url)

ExtensionAllows(link) ==
    \E i \in IncludeRules :
        \/ StripHash(link) = StripHash(config.rules[i].url)
        \/ config.rules[i].subpaths /\ InScope(StripHash(link), config.rules[i])

\* C2: a URL that a deny rule matches is rejected, also when an allow rule
\* matches it and whatever the order of the rules: shouldVisit answers false,
\* and visit() issues no request
C2_DenyWins ==
    verdict # "none" =>
        /\ (GoDenies(probe) => verdict = "skip")
        /\ (ExtensionDenies(probe) => inflight = NoRequest)

\* C2 witness: the decision was taken on a URL that both engines match with
\* a deny rule declared after an allow rule
C2_BothMatchDecided ==
    /\ verdict = "skip"
    /\ Len(config.rules) = 2
    /\ config.rules[1].action = "include" /\ config.rules[2].action = "ignore"
    /\ GoDenies(probe) /\ GoAllows(probe)
    /\ ExtensionDenies(probe) /\ ExtensionAllows(probe)

WrittenUrls == {w.url : w \in writes}

\* the rule's URL itself, or a URL below it
StrictlyUnder(url, ruleUrl) == url = ruleUrl \/ StartsWith(url, ruleUrl \o <<"/">>)

\* C4: of the hyperlinks of an HTML page, only those that are the rule's URL
\* or lie below it ("/" after the rule's URL) are handed to visit() and
\* fetched; a sibling that shares the prefix is not
C4_StrictSubpathScope ==
    \A k \in 1..Len(frames) :
        frames[k].url \in WrittenUrls =>
            /\ \A i \in 1..Len(frames[k].links) :
                   StrictlyUnder(frames[k].links[i], frames[k].rule.url)
            /\ k < Len(frames) => StrictlyUnder(frames[k + 1].url, frames[k].rule.url)

\* the request in flight belongs to the innermost visit()
InflightRule == frames[Len(frames)].rule

InflightPath == GetFilePath(inflight.url, InflightRule)

\* metadata.last_modified of a document, read as YAML frontmatter between the
\* opening line "---" and the next line that is "---"; <<>> when the document
\* has no such block, the block is not YAML, or the key is absent
FrontmatterLastModified(content) ==
    LET lines  == SplitLines(content)
        closes == {i \in 2..Len(lines) : lines[i] = Dashes}
    IN  IF lines[1] # Dashes \/ closes = {} THEN <<>>
        ELSE LET close == CHOOSE i \in closes : \A j \in closes : i <= j
                 block == {i \in 2..(close - 1) : TRUE}
                 hits  == {i \in block : lines[i] # <<>> /\ lines[i][1] = "  last_modified: "}
             IN  IF \E i \in block : Includes(lines[i], <<":", " ">>) THEN <<>>
                 ELSE IF hits = {} THEN <<>>
                 ELSE Tail(lines[CHOOSE i \in hits : TRUE])

\* C5: while a request is in flight for a URL whose output path holds a
\* document with a stored metadata.last_modified, the request carries that
\* value, unchanged, as If-Modified-Since
C5_ConditionalHeaderCarriesStored ==
    (phase = "fetching" /\ InflightPath \in DOMAIN disk
        /\ FrontmatterLastModified(disk[InflightPath]) # <<>>)
    => inflight.ims = FrontmatterLastModified(disk[InflightPath])

\* C6: whatever request is in flight, a 304 answer leaves every file as it is,
\* and an HTML answer puts the newly synthesized document at the computed
\* path of the URL, replacing what was there, and leaves the other files
C6_NotModifiedKeepsFreshOverwrites ==
    phase = "fetching" =>
        \A resp \in RefetchResponses :
            LET after == HandleResponse("current", Machine, resp)
            IN  /\ resp.status = 304 => after.disk = disk /\ after.writes = writes
                /\ (resp.status = 200 /\ resp.ct = "html"
                        /\ ~EndsWith(inflight.url, <<".", "xml">>))
                   => /\ InflightPath \in DOMAIN after.disk
                      /\ after.disk[InflightPath] =
                            Document(inflight.url, resp.page.title,
                                     resp.page.description, Now(run))
                      /\ \A q \in DOMAIN disk \ {InflightPath} :
                            q \in DOMAIN after.disk /\ after.disk[q] = disk[q]

\* a second run has replaced the document of the first run
C6_OverwrittenReached ==
    /\ run = 2 /\ phase = "done"
    /\ \E w \in writes :
          /\ w.path \in DOMAIN disk
          /\ FrontmatterLastModified(disk[w.path]) = Now(2)
          /\ \E d \in derived : d.path = w.path

Range(f) == {f[i] : i \in DOMAIN f}

\* C7: an answer handled as a feed or sitemap writes no document, and each of
\* its entries that is a URL is, once the answer has been handled, requested
\* or already visited, denied, or still waiting in the feed's own visit
C7_FeedMinedNotWritten ==
    phase = "fetching" =>
        \A resp \in FeedResponses :
            (resp.status = 200 /\ resp.ct = "xml") =>
                LET after == Run("current", HandleResponse("current", Machine, resp))
                    n     == Len(frames)
                IN  /\ after.disk = disk
                    /\ after.writes = writes
                    /\ \A e \in Range(ExtractLinksFromXml(resp)) :
                          ValidURL(e) =>
                              \/ StripHash(e) \in after.visited
                              \/ ShouldIgnore(StripHash(e))
                              \/ /\ Len(after.frames) >= n
                                 /\ after.frames[n].url = inflight.url
                                 /\ e \in Range(after.frames[n].links)

IncludeUrls ==
    {StripHash(config.rules[i].url) :
        i \in {j \in 1..Len(config.rules) : config.rules[j].action = "include"}}

C9_WritesNeverCollide ==
    \A w1, w2 \in writes : w1.path = w2.path => w1.url = w2.url

C11_RerunKeepsPaths == [][run >= 1 /\ run' >= 2 => DOMAIN disk' = DOMAIN disk]_vars

\* a second run has ended after overwriting a document of the first
C11_RerunOverwroteReached ==
    /\ run = 2 /\ phase = "done"
    /\ writes # {}
    /\ Cardinality(DOMAIN disk) >= 2

\* the directory below the output root that a path lies in, "" when the
\* document lies in the output root itself
DirectoryOf(path) ==
    LET d == PathDirname(path)
    IN  IF d = OutputDir THEN <<>> ELSE TrimPrefix(d, OutputDir \o <<"/">>)

\* the flat directory name as the layout rule states it, for a host and a
\* URL path: dots of the host become "_"; the path loses a ".html" suffix,
\* then a trailing "/index", then a trailing "/", then its leading "/", and
\* its remaining "/" become "_"
StatedFlatDir(host, path) ==
    LET a == IF EndsWith(path, <<".", "html">>) THEN SubSeq(path, 1, Len(path) - 2) ELSE path
        b == IF EndsWith(a, <<"/", "index">>) THEN SubSeq(a, 1, Len(a) - 2) ELSE a
        c == IF b # <<>> /\ b[Len(b)] = "/" THEN SubSeq(b, 1, Len(b) - 1) ELSE b
        d == IF c # <<>> /\ c[1] = "/" THEN Tail(c) ELSE c
        under(t) == [i \in 1..Len(t) |-> IF t[i] \in {"/", "."} THEN "_" ELSE t[i]]
        h == under(host)
        q == [i \in 1..Len(d) |-> IF d[i] = "/" THEN "_" ELSE d[i]]
    IN  IF q = <<>> THEN h ELSE h \o <<"_">> \o q

FlatNamed == config.flat /\ ~config.rules[1].bundle

\* C12 as stated: in flat mode every document lies in the stated directory,
\* under the rename override or the default name
C12_FlatNamingAsStated ==
    /\ \A w \in writes :
          FlatNamed =>
              w.path = OutputDir \o <<"/">>
                       \o StatedFlatDir(Hostname(w.url), Pathname(w.url))
                       \o <<"/">> \o FileName
    /\ \A g \in goSaved :
          config.flat =>
              DirectoryOf(g.path) = StatedFlatDir(Hostname(g.url), GoUrlPath(g.url))

\* C12, amended: the extension also turns every "%20" of the path into "_"
C12_FlatNaming ==
    /\ \A w \in writes :
          FlatNamed =>
              w.path = OutputDir \o <<"/">>
                       \o StatedFlatDir(Hostname(w.url),
                                         ReplaceAll(Pathname(w.url), "%20", "_"))
                       \o <<"/">> \o FileName
    /\ \A g \in goSaved :
          config.flat =>
              /\ DirectoryOf(g.path) = StatedFlatDir(Hostname(g.url), GoUrlPath(g.url))
              /\ g.path = OutputDir \o <<"/">> \o DirectoryOf(g.path) \o <<"/">>
                          \o (IF config.file_rename # <<>> THEN config.file_rename
                              ELSE <<"index", ".", "md">>)

\* the page of the layout rule's example has been saved in flat mode
C12_FlutterSaved ==
    /\ config.flat /\ ~config.rules[1].bundle /\ config.file_rename = <<>>
    /\ \E w \in writes :
          /\ w.url = FlutterUrl
          /\ w.path = <<"out", "/", "docs", "_", "flutter", "_", "dev", "_", "get-started",
                        "_", "install", "/", "SKILL.md">>
    /\ \E g \in goSaved :
          DirectoryOf(g.path) = <<"docs", "_", "flutter", "_", "dev", "_", "get-started",
                                  "_", "install">>

\* the rule's URL without a trailing "/"
RuleRoot(rule) == IF EndsWith(rule.url, <<"/">>) THEN DropLast(rule.url) ELSE rule.url

IsBundleRoot(url, rule) == url = RuleRoot(rule) \/ url = RuleRoot(rule) \o <<"/">>

IsBelowRule(url, rule) ==
    StartsWith(url, RuleRoot(rule) \o <<"/">>) /\ ~IsBundleRoot(url, rule)

\* the part of a URL below the rule's URL, without a trailing "/", "/" as "_"
StatedReference(url, rule) ==
    LET rel  == Substring(url, Len(RuleRoot(rule)) + 1)
        trim == IF rel # <<>> /\ rel[Len(rel)] = "/" THEN SubSeq(rel, 1, Len(rel) - 1) ELSE rel
    IN  [i \in 1..Len(trim) |-> IF trim[i] = "/" THEN "_" ELSE trim[i]]

\* C13: under a bundle rule the rule's root URL is written to the primary
\* file of the bundle directory and every URL below the rule's URL to
\* references/<relative path>.md of the same directory
C13_BundleNaming ==
    \A w \in writes :
        LET rule == config.rules[1]
            dir  == OutputDir \o <<"/">> \o BundleDir(rule) \o <<"/">>
        IN  rule.bundle =>
              /\ IsBundleRoot(w.url, rule) => w.path = dir \o FileName
              /\ IsBelowRule(w.url, rule) =>
                    w.path = dir \o <<"references", "/">>
                             \o StatedReference(w.url, rule) \o <<".", "md">>

\* a page two levels below a bundle rule has been written
C13_DeepReferenceSaved ==
    /\ config.rules[1] = Rule(Root, "include", TRUE, TRUE)
    /\ \E w \in writes :
          /\ w.url = DeepUrl
          /\ w.path = <<"out", "/", "e", "_", "c", "_", "p", "/", "references", "/",
                        "1", "_", "x", ".", "md">>

\* the first directory of a path below the output root
TopDirectoryOf(path) ==
    LET d == DirectoryOf(path)
    IN  SubSeq(d, 1, FirstOf(d, {"/"}) - 1)

\* C14: the directory of a bundle is the directory that flat mode gives to
\* the rule's own URL
C14_BundleDirIsFlatDir ==
    \A w \in writes :
        config.rules[1].bundle =>
            TopDirectoryOf(w.path) = FlatDirName(StripHash(config.rules[1].url))

\* the hierarchical skill path as the layout rule states it, for a host and a
\* URL path: a path that is empty or ends in "/" (and, when extensionless
\* paths expand, one whose last segment has no ".") continues with "index";
\* the file gets ".md" (in place of ".html" when that suffix is replaced);
\* a rename override names the file in the same directory
StatedHierarchical(host, path, extensionlessExpand, htmlReplaced, rename) ==
    LET last     == LastSegment(path)
        hasExt   == \E i \in 1..Len(last) : last[i] = "."
        expanded == IF path = <<>> THEN <<"/", "index">>
                    ELSE IF path[Len(path)] = "/" THEN path \o <<"index">>
                    ELSE IF extensionlessExpand /\ ~hasExt THEN path \o <<"/", "index">>
                    ELSE path
        file     == IF htmlReplaced /\ EndsWith(expanded, <<".", "html">>)
                    THEN SubSeq(expanded, 1, Len(expanded) - 2) \o <<".", "md">>
                    ELSE expanded \o <<".", "md">>
    IN  IF rename # <<>>
        THEN OutputDir \o <<"/">> \o host \o SubSeq(expanded, 1, LastSlash(expanded)) \o rename
        ELSE OutputDir \o <<"/">> \o host \o file

HierarchicalNamed == ~config.flat /\ ~config.rules[1].bundle

FrontmatterName(content) == Tail(SplitLines(content)[2])

\* C16: in the flat and the bundled layout the name field of a written
\* document is the name of the computed directory it lies in
C16_NameIsDirectory ==
    /\ \A w \in writes :
          (config.flat \/ config.rules[1].bundle) =>
              FrontmatterName(disk[w.path]) = TopDirectoryOf(w.path)
    /\ \A g \in goSaved :
          config.flat => g.name = TopDirectoryOf(g.path)

\* a slug: "untitled", or at most NameMax characters of [a-z0-9-] with no
\* hyphen at either end and no two hyphens in a row
WellFormedSlug(n) ==
    \/ n = <<"untitled">>
    \/ /\ n # <<>>
       /\ Len(n) <= NameMax
       /\ \A i \in 1..Len(n) : n[i] \in SlugChars
       /\ n[1] # "-" /\ n[Len(n)] # "-"
       /\ \A i \in 1..(Len(n) - 1) : ~(n[i] = "-" /\ n[i + 1] = "-")

\* C17: the name that is the slug of a title is a well-formed slug
C17_SlugWellFormed ==
    /\ \A w \in writes : WellFormedSlug(FrontmatterName(disk[w.path]))
    /\ \A g \in goSaved : ~config.flat => WellFormedSlug(g.name)

\* the allow pattern "everything under U": U, a "/" unless U ends in one, "*"
StatedSubpathsPattern(url) ==
    (IF EndsWith(url, <<"/">>) THEN url ELSE url \o <<"/">>) \o <<"*">>

\* C18: when the configuration is one structured include rule with subpaths
\* on a URL U, the Go rule engine accepts a URL exactly when the allow
\* pattern U + "/*" matches it or it is U itself
C18_SubpathsRuleAcceptsRoot ==
    (/\ verdict # "none"
     /\ Len(config.rules) = 1
     /\ config.rules[1].action = "include"
     /\ config.rules[1].subpaths)
    => (verdict = "visit"
           <=> \/ GlobMatch(StatedSubpathsPattern(config.rules[1].url), probe)
               \/ probe = config.rules[1].url)

\* C19: on a site whose pages link to each other and to themselves, a run
\* that has a request in flight ends: crawl() resolves with no visit() left
\* and no request in flight
C19_CrawlTerminates ==
    (phase = "fetching") ~> (phase = "done" /\ frames = <<>> /\ inflight = NoRequest)

\* a run has ended on a site where the root's page and a page below it link
\* to each other and to themselves, each fetched once
C19_CycleCrawledReached ==
    /\ phase = "done"
    /\ \A u \in {RootSlash, Page1} :
          /\ server[u].ok
          /\ server[u].links = <<RootSlash, Page1>>
          /\ Count(fetches, u) = 1
    /\ server[Root].ok /\ server[Root].links = <<RootSlash, Page1>>

\* C20: a run never ends by crawl() rejecting, and when it has ended every
\* include rule whose URL parses has been visited and so has every URL that
\* was read from the body of an answer, whatever failed on the way
C20_FailuresAreLocal ==
    /\ phase # "failed"
    /\ phase \in {"done", "failed"} =>
          /\ \A i \in IncludeRules :
                ValidURL(config.rules[i].url) => StripHash(config.rules[i].url) \in visited
          /\ mined \subseteq visited

\* C21: at every moment of a run of the Go collector at most Parallelism
\* requests are in flight, however many targets are waiting
C21_InFlightBounded == Cardinality(goActive) <= Parallelism

\* all slots are taken while a further request waits in the queue
C21_SlotsFullReached == Cardinality(goActive) = Parallelism /\ goQueue # {}

\* C22: once cancellation of the running crawl has been requested, no request
\* is sent for a target that had not started fetching
C22_CancelStopsFetching ==
    [][(cancelRequested /\ cancelRequested') => fetches' = fetches]_vars

\* C29: when no message is under way, the stored configuration and the
\* configuration shown in the webview are those of the most recent edit
C29_LatestEditKept ==
    (toHost = <<>> /\ toView = <<>> /\ lastEdit.n > 0)
    => /\ stored.config = lastEdit.state
       /\ view = lastEdit.state

\* C23: every rule that scan returns is an include rule with subpaths
\* enabled and the bundle flag set
C23_EmittedRulesBundled ==
    \A i \in 1..Len(emitted.rules) :
        /\ emitted.rules[i].action = "include"
        /\ emitted.rules[i].subpaths
        /\ emitted.rules[i].bundle

RECURSIVE StatedGoRules(_, _)
\* the rules that go.mod stands for: one for every entry line of a require
\* block and for every single-line require, none for any other line
StatedGoRules(lines, inBlock) ==
    IF lines = <<>> THEN <<>>
    ELSE LET parts == Head(lines)
             rest  == Tail(lines)
         IN  IF parts = <<"require", "(">> THEN StatedGoRules(rest, TRUE)
             ELSE IF inBlock /\ parts = <<")">> THEN StatedGoRules(rest, FALSE)
             ELSE IF Len(parts) >= 3 /\ parts[1] = "require"
             THEN <<Rule(GoUrl(parts[2], <<parts[3]>>), "include", TRUE, FALSE)>>
                  \o StatedGoRules(rest, inBlock)
             ELSE IF inBlock /\ Len(parts) >= 2 /\ parts[1] # "//"
             THEN <<Rule(GoUrl(parts[1], <<parts[2]>>), "include", TRUE, FALSE)>>
                  \o StatedGoRules(rest, inBlock)
             ELSE StatedGoRules(rest, inBlock)

\* C24: for a project with a go.mod only, scan returns the rules of its
\* requirements, one each and in file order, and nothing for other lines
C24_GoModRequirementsOnly ==
    (emitted.returned /\ manifest.has = {"go"})
    => emitted.rules = StatedGoRules(manifest.go, FALSE)

\* the rules returned for the dependency of a name
RulesFor(name) == {i \in 1..Len(emitted.rules) : emitted.rules[i].url[6] = name}

\* an npm specifier that is a file path or a git URL
NpmLocalOrGit(version) == version # <<>> /\ version[1] \in {"file:", "git"}

\* a pubspec entry that is an SDK package or is given as an sdk:, path: or
\* git: map
PubSdkLocalOrGit(dep) ==
    \/ dep.name \in {"flutter", "flutter_test"}
    \/ dep.kind = "map" /\ dep.source \in {"sdk", "path", "git"}

\* C25: scan returns no rule for a dependency that is SDK-only, a local path
\* or a source-control reference, and exactly one rule for every other
\* dependency of package.json and pubspec.yaml
C25_OneRulePerHostedDependency ==
    emitted.returned =>
        /\ manifest.has = {"npm"} =>
              \A i \in 1..Len(manifest.npm) :
                  Cardinality(RulesFor(manifest.npm[i].name)) =
                      IF NpmLocalOrGit(manifest.npm[i].version) THEN 0 ELSE 1
        /\ manifest.has = {"pub"} =>
              \A i \in 1..Len(manifest.pub) :
                  Cardinality(RulesFor(manifest.pub[i].name)) =
                      IF PubSdkLocalOrGit(manifest.pub[i]) THEN 0 ELSE 1

\* the version in the URL of a scanned rule: what follows "/v/", "/versions/"
\* or "@"
VersionOf(rule) ==
    IF rule.url[2] = "pkg.go.dev" THEN Substring(rule.url, 5) ELSE Substring(rule.url, 9)

\* C26: the version in the URL of every rule that scan returns is one plain
\* token, without range operators, blanks or path separators
C26_VersionIsOneToken ==
    \A i \in 1..Len(emitted.rules) :
        LET v == VersionOf(emitted.rules[i])
        IN  /\ Len(v) = 1
            /\ v[1] \notin RangeOperators \cup {" ", "/", "file:"}

\* C27: a target that is rejected, and an answer that is a failure, a 304 or
\* neither HTML nor a feed, writes nothing and hands no further target on:
\* the files and the URLs read from bodies stay as they are and the visit()
\* of the target returns
C27_OnlyExtractedHasEffects ==
    phase = "fetching" =>
        /\ \A resp \in Responses :
              (\/ resp.status \in {0, 304}
               \/ resp.ct = "other" /\ ~EndsWith(inflight.url, <<".", "xml">>))
              => LET after == HandleResponse("current", Machine, resp)
                 IN  /\ after.disk = disk
                     /\ after.writes = writes
                     /\ after.mined = mined
                     /\ after.frames = DropLast(frames)
        /\ \A u \in Hrefs :
              (ValidURL(u) /\ SkipVisit(visited, StripHash(u)))
              => EnterVisit("current", Machine, u, InflightRule) = Machine

\* the answer for a target is awaited while its parent has written its
\* document and has further links to hand on
C27_ChildAwaitedReached ==
    /\ phase = "fetching"
    /\ Len(frames) = 2
    /\ frames[1].links # <<>>
    /\ disk # <<>>
    /\ \E u \in Hrefs : ValidURL(u) /\ SkipVisit(visited, StripHash(u))

\* C28: an ignore rule without subpaths rejects only the page it names: when
\* it is the configuration's only ignore rule and the URL decided on merely
\* starts with the rule's URL, the Go deny pattern does not match the URL and
\* the extension's visit() goes on to request it
C28_IgnoreRuleRejectsItsPageOnly ==
    \A i \in 1..Len(config.rules) :
        LET rule     == config.rules[i]
            cleanUrl == StripHash(probe)
        IN  (/\ verdict # "none"
             /\ IncludeRules # {}
             /\ {j \in 1..Len(config.rules) : config.rules[j].action = "ignore"} = {i}
             /\ ~rule.subpaths
             /\ cleanUrl # rule.url
             /\ StartsWith(cleanUrl, rule.url))
            => /\ ~GlobMatch(PatternGlob(RulePattern(rule)), probe)
               /\ cleanUrl \in visited

\* the page at a URL was answered as HTML in this run
ReturnedHtml(url) == \E w \in writes : w.url = StripHash(url)

\* C30: when a run has ended, every include rule flagged bundle whose root
\* URL is not denied and was answered as HTML has its primary file on disk,
\* whatever the order of the rules and whichever rule the URL was first
\* reached under
C30_BundlePrimaryWritten ==
    phase = "done" =>
        \A i \in 1..Len(config.rules) :
            LET rule == config.rules[i]
            IN  (/\ rule.action = "include" /\ rule.bundle
                 /\ ~ShouldIgnore(StripHash(rule.url))
                 /\ ReturnedHtml(rule.url))
                => PathJoin(<<OutputDir, BundleDir(rule), FileName>>) \in DOMAIN disk

\* C3: a URL that the rule engine denies is never requested, whether it is a
\* seed or a discovered link: not by the extension's crawler, not by the Go
\* collector
C3_DeniedNeverFetched ==
    /\ \A u \in FetchedUrls : ~ExtensionDenies(u)
    /\ \A u \in goFetched : ~GoDenies(u)

====
